---- MODULE Spec2Model ----
(***************************************************************************)
(* dreamhost-ddns: the polling loop of main.rs (heartbeat, update_timer,   *)
(* main) together with the Record type and the list/add/remove calls of    *)
(* dreamhost.rs, run against a remote record store.                        *)
(***************************************************************************)
EXTENDS Integers, Sequences, FiniteSets, TLC

VARIABLES
    pc,             \* position in main's loop / heartbeat
    store,          \* the records held by the remote authority (JSON "data" entries)
    home_ip_addrs,  \* result of resolver.lookup_ips() in this cycle
    home_ips,       \* heartbeat's Vec<Record> built from the resolved addresses
    entries,        \* the "data" array of this cycle's list response
    listed,         \* the Vec<Record> that dreamhost.list() returned in this cycle
    dh_ips,         \* heartbeat's dh_ips (listed, then retained)
    ri,             \* number of iterations done of `for i in &dh_ips`
    ai,             \* number of iterations done of `for i in home_ips`
    calls,          \* the API requests issued in this cycle, in order
    succeeded,      \* heartbeat's return value
    sleep_s,        \* main's sleep_s
    opts,           \* OPTS.min_sleep / OPTS.max_sleep
    list_result,    \* the "result" field of this cycle's list response ("" before it)
    last_s,         \* the last_s argument of the latest update_timer call
    fails,          \* failed cycles so far while no cycle has succeeded (-1: not counted)
    cycle           \* iterations of main's loop completed, counted up to MaxCycles

vars == <<pc, store, home_ip_addrs, home_ips, entries, listed, dh_ips, ri, ai, calls,
          succeeded, sleep_s, opts, list_result, last_s, fails, cycle>>

\* heartbeat's locals and the list response
locals == <<home_ip_addrs, home_ips, entries, listed, dh_ips, ri, ai, calls, list_result>>

\* main's timer state, the configuration and the counters
timer == <<sleep_s, opts, last_s, fails, cycle>>

----------------------------------------------------------------------------
(* Bounds of the model *)

\* longest Vec<IpAddr> the resolver returns
MaxIps == 2
\* most records the remote authority holds (its record-count limit)
MaxStore == 2
\* largest value of the unsigned word that holds a delay (u32 in the source,
\* narrowed so that every pair of delays can be enumerated)
WordMax == 7
\* failed cycles counted from the start of the process
MaxFails == 3
\* loop iterations counted
MaxCycles == 2

----------------------------------------------------------------------------
(* Addresses and their textual forms (std::net::IpAddr) *)

Ipv4_1_2_3_4 == [family |-> "V4", segments |-> <<1, 2, 3, 4>>]
Ipv6_Loopback == [family |-> "V6", segments |-> <<0, 0, 0, 0, 0, 0, 0, 1>>]

\* the addresses the resolver may report
Addrs == {Ipv4_1_2_3_4, Ipv6_Loopback}

\* Err of IpAddr::from_str
NoAddr == [family |-> "none", segments |-> <<>>]

\* IpAddr::from_str on the texts a list response carries: an abbreviated and an
\* unabbreviated IPv6 literal parse to the same address; anything else fails.
ParseIp(s) ==
    CASE s = "1.2.3.4" -> Ipv4_1_2_3_4
      [] s = "::1" -> Ipv6_Loopback
      [] s = "0:0:0:0:0:0:0:1" -> Ipv6_Loopback
      [] OTHER -> NoAddr

\* Display of IpAddr: always the canonical (abbreviated) form
DisplayIp(ip) ==
    CASE ip = Ipv4_1_2_3_4 -> "1.2.3.4"
      [] ip = Ipv6_Loopback -> "::1"
      [] OTHER -> ""

----------------------------------------------------------------------------
(* Record (dreamhost.rs) *)

\* Record::new: a locally synthesized record; svalue is String::new()
RecordNew(value) ==
    [value |-> value,
     r_type |-> IF value.family = "V6" THEN "AAAA" ELSE "A",
     svalue |-> ""]

\* impl PartialEq for Record
RecordEq(a, b) == a.r_type = b.r_type /\ a.value = b.value

\* home_ip_addrs.iter().map(Record::new).collect()
RECURSIVE MapRecordNew(_)
MapRecordNew(ips) ==
    IF ips = <<>> THEN <<>>
    ELSE <<RecordNew(Head(ips))>> \o MapRecordNew(Tail(ips))

----------------------------------------------------------------------------
(* The remote authority: OPTS.hostname and the entries of a list response *)

ddns_host == "home.example.com"

\* entries the remote authority may hold: well-formed managed records, a record
\* whose type disagrees with its address family, unparsable values, another
\* hostname's record and a record of another type
EntryUniverse ==
    {[record |-> ddns_host, type |-> "A", value |-> "1.2.3.4"],
     [record |-> ddns_host, type |-> "AAAA", value |-> "::1"],
     [record |-> ddns_host, type |-> "AAAA", value |-> "0:0:0:0:0:0:0:1"],
     [record |-> ddns_host, type |-> "A", value |-> "::1"],
     [record |-> ddns_host, type |-> "A", value |-> ""],
     [record |-> ddns_host, type |-> "AAAA", value |-> "bogus"],
     [record |-> "www.example.com", type |-> "A", value |-> "1.2.3.4"],
     [record |-> ddns_host, type |-> "TXT", value |-> "1.2.3.4"]}

SeqsUpTo(S, n) == UNION {[1..k -> S] : k \in 0..n}

\* the hostname comparison left out of the closure
ListKeeps_AnyHost(entry) ==
    /\ entry.type \in {"A", "AAAA"}
    /\ ParseIp(entry.value) # NoAddr

\* filter_map closure of Dreamhost::list: TRUE when the entry yields a Record
ListKeeps(entry) ==
    /\ entry.record = ddns_host
    /\ entry.type \in {"A", "AAAA"}
    /\ ParseIp(entry.value) # NoAddr

\* the remote's text not kept: svalue left as String::new()
ListRecord_NoHandle(entry) ==
    [value |-> ParseIp(entry.value),
     r_type |-> entry.type,
     svalue |-> ""]

\* the Record the closure builds from a kept entry
ListRecord(entry) ==
    [value |-> ParseIp(entry.value),
     r_type |-> entry.type,
     svalue |-> entry.value]

\* entries.iter().filter_map(..).collect()
RECURSIVE ListFilterMap(_)
ListFilterMap(data) ==
    IF data = <<>> THEN <<>>
    ELSE (IF ListKeeps(Head(data)) THEN <<ListRecord(Head(data))>> ELSE <<>>)
         \o ListFilterMap(Tail(data))

\* the parsed address re-rendered (r.value through Display) instead of r.svalue
RemoveUrlValue_Rendered(r) == DisplayIp(r.value)

\* value= parameter of the dns-remove_record request: r.svalue
RemoveUrlValue(r) == r.svalue

\* value= parameter of the dns-add_record request: r.value through Display
AddUrlValue(r) == DisplayIp(r.value)

\* the store without its first entry equal to e
RECURSIVE RemoveFirst(_, _)
RemoveFirst(s, e) ==
    IF s = <<>> THEN <<>>
    ELSE IF Head(s) = e THEN Tail(s)
    ELSE <<Head(s)>> \o RemoveFirst(Tail(s), e)

InSeq(s, e) == \E i \in DOMAIN s : s[i] = e

----------------------------------------------------------------------------
(* heartbeat's diff (main.rs 82-93) *)

\* dh_ips.retain(|dh_ip| ...) for one home_ip: every equal dh_ip is dropped
RetainDh(dh, home_ip) == SelectSeq(dh, LAMBDA d : ~RecordEq(d, home_ip))

\* the closure's `deleted` flag for one home_ip
Deleted(dh, home_ip) == \E i \in DOMAIN dh : RecordEq(dh[i], home_ip)

\* home_ips.retain(|home_ip| ...): home records are visited in order, each
\* against the dh_ips left by the earlier ones
RECURSIVE Retain(_, _, _)
Retain(home, dh, kept) ==
    IF home = <<>> THEN [home_ips |-> kept, dh_ips |-> dh]
    ELSE Retain(Tail(home), RetainDh(dh, Head(home)),
                IF Deleted(dh, Head(home)) THEN kept ELSE Append(kept, Head(home)))

Diff(home, dh) == Retain(home, dh, <<>>)

----------------------------------------------------------------------------
(* update_timer (main.rs 126-138) *)

Min(a, b) == IF a <= b THEN a ELSE b

\* `last_s + min_sleep_s` on the unsigned word, built without overflow checks
WrappingAdd(a, b) == (a + b) % (WordMax + 1)

\* `last_s + min_sleep_s` does not fit the unsigned word
Overflows(a, b) == a + b > WordMax

\* the success branch keeping the previous delay instead of resetting it
update_timer_NoReset(success, last) ==
    IF success THEN last
    ELSE Min(WrappingAdd(last, opts.min_sleep), opts.max_sleep)

update_timer(success, last) ==
    IF success THEN opts.min_sleep
    ELSE Min(WrappingAdd(last, opts.min_sleep), opts.max_sleep)

----------------------------------------------------------------------------
(* heartbeat's control flow (main.rs 53-124) *)

\* Result values of lookup_ips() and list()
Err == [ok |-> FALSE, val |-> <<>>]
Ok(v) == [ok |-> TRUE, val |-> v]

\* the emptiness check left out: an empty desired set goes on to the diff
NoAddresses_Unchecked(home) == FALSE

\* `if home_ips.is_empty() { return false; }`
NoAddresses(home) == Len(home) = 0

\* position in the two consecutive for loops: r removals and a additions done
LoopPos(r, a, dh, home) ==
    IF r < Len(dh) THEN "remove"
    ELSE IF a < Len(home) THEN "add"
    ELSE "return_true"

\* the Err arm of list() taken as an empty remote set instead of a return
AfterList_ErrAsEmpty(ok, dh, home) ==
    IF Len(dh) = 0 /\ Len(home) = 0 THEN "return_true"
    ELSE LoopPos(0, 0, dh, home)

\* after `match dreamhost.list()` and the two retains: Err returns false, an
\* empty plan returns true, otherwise the loops start
AfterList(ok, dh, home) ==
    IF ~ok THEN "return_false"
    ELSE IF Len(dh) = 0 /\ Len(home) = 0 THEN "return_true"
    ELSE LoopPos(0, 0, dh, home)

\* the removal loop left after its first iteration
AfterRemove_Break(ok, r, dh, home) == LoopPos(Len(dh), 0, dh, home)

\* the Err arm of remove returning false, as the Err arm of add does
AfterRemove_Abort(ok, r, dh, home) ==
    IF ~ok THEN "return_false" ELSE LoopPos(r, 0, dh, home)

\* after one iteration of `for i in &dh_ips`: both match arms only log
AfterRemove(ok, r, dh, home) == LoopPos(r, 0, dh, home)

\* the Err arm of add only logging, as the Err arm of remove does
AfterAdd_Continue(ok, a, dh, home) == LoopPos(Len(dh), a, dh, home)

\* after one iteration of `for i in home_ips`: the Err arm returns false
AfterAdd(ok, a, dh, home) ==
    IF ~ok THEN "return_false" ELSE LoopPos(Len(dh), a, dh, home)

\* heartbeat returns, or goes on at the given position
Goto(next) ==
    IF next = "return_false" THEN succeeded' = FALSE /\ pc' = "timer"
    ELSE IF next = "return_true" THEN succeeded' = TRUE /\ pc' = "timer"
    ELSE pc' = next /\ UNCHANGED succeeded

Call(op, type, value, ok) == [op |-> op, type |-> type, value |-> value, ok |-> ok]

----------------------------------------------------------------------------
(* State machine *)

MinSleeps == {1}
MaxSleeps == {2}

\* before the first iteration of main's loop
InitLocals ==
    /\ pc = "resolve"
    /\ home_ip_addrs = Err
    /\ home_ips = <<>>
    /\ entries = <<>>
    /\ listed = Err
    /\ dh_ips = <<>>
    /\ ri = 0
    /\ ai = 0
    /\ calls = <<>>
    /\ list_result = ""
    /\ succeeded = FALSE
    /\ sleep_s = 0
    /\ last_s = 0
    /\ fails = 0
    /\ cycle = 0

Init ==
    /\ InitLocals
    /\ store \in SeqsUpTo(EntryUniverse, MaxStore)
    /\ opts \in [min_sleep : MinSleeps, max_sleep : MaxSleeps]

\* resolver.lookup_ips() fails
LookupErr ==
    /\ pc = "resolve"
    /\ home_ip_addrs' = Err
    /\ Goto("return_false")
    /\ UNCHANGED <<store, home_ips, entries, listed, dh_ips, ri, ai, calls, list_result>>
    /\ UNCHANGED timer

\* resolver.lookup_ips() returns ips; heartbeat up to the is_empty check
LookupReturns(ips) ==
    /\ pc = "resolve"
    /\ home_ip_addrs' = Ok(ips)
    /\ home_ips' = MapRecordNew(ips)
    /\ Goto(IF NoAddresses(MapRecordNew(ips)) THEN "return_false" ELSE "list")
    /\ UNCHANGED <<store, entries, listed, dh_ips, ri, ai, calls, list_result>>
    /\ UNCHANGED timer

\* resolver.lookup_ips() returns addresses (possibly none)
LookupOk == \E ips \in SeqsUpTo(Addrs, MaxIps) : LookupReturns(ips)

\* Dreamhost::list on a response: Err unless the API answered success with a
\* data array; malformed or foreign entries are left out, never an Err
ListResult(api_ok, data) == IF api_ok THEN Ok(ListFilterMap(data)) ELSE Err

\* dreamhost.list() and the diff of the two vectors; api_ok: the request went
\* through and the API answered "success"
ListStep(api_ok) ==
    /\ pc = "list"
    /\ LET result == ListResult(api_ok, store)
           ok == result.ok
           plan == Diff(home_ips, result.val)
       IN  /\ entries' = (IF api_ok THEN store ELSE <<>>)
           /\ list_result' = (IF api_ok THEN "success" ELSE "error")
           /\ listed' = result
           /\ calls' = Append(calls, Call("list", "", "", ok))
           /\ IF ok
              THEN home_ips' = plan.home_ips /\ dh_ips' = plan.dh_ips
              ELSE UNCHANGED <<home_ips, dh_ips>>
           /\ Goto(AfterList(ok, IF ok THEN plan.dh_ips ELSE <<>>,
                             IF ok THEN plan.home_ips ELSE home_ips))
    /\ UNCHANGED <<store, home_ip_addrs, ri, ai>>
    /\ UNCHANGED timer

List == \E api_ok \in BOOLEAN : ListStep(api_ok)

\* one iteration of `for i in &dh_ips`: dreamhost.remove(i); ok: the API
\* answered "success"
RemoveStep(ok) ==
    /\ pc = "remove"
    /\ LET r == dh_ips[ri + 1]
           entry == [record |-> ddns_host, type |-> r.r_type,
                     value |-> RemoveUrlValue(r)]
       IN  IF r.svalue = ""
           THEN \* assert!(!r.svalue.is_empty()) panics
                /\ pc' = "panic"
                /\ UNCHANGED <<store, ri, calls, succeeded>>
           ELSE /\ ok => InSeq(store, entry)
                /\ store' = IF ok THEN RemoveFirst(store, entry) ELSE store
                /\ calls' = Append(calls, Call("remove", entry.type, entry.value, ok))
                /\ ri' = ri + 1
                /\ Goto(AfterRemove(ok, ri + 1, dh_ips, home_ips))
    /\ UNCHANGED <<home_ip_addrs, home_ips, entries, listed, dh_ips, ai, list_result>>
    /\ UNCHANGED timer

Remove == \E ok \in BOOLEAN : RemoveStep(ok)

\* one iteration of `for i in home_ips`: dreamhost.add(&i); ok: the API
\* answered "success"
AddStep(ok) ==
    /\ pc = "add"
    /\ LET r == home_ips[ai + 1]
           entry == [record |-> ddns_host, type |-> r.r_type,
                     value |-> AddUrlValue(r)]
       IN  /\ ok => Len(store) < MaxStore
           /\ store' = IF ok THEN Append(store, entry) ELSE store
           /\ calls' = Append(calls, Call("add", entry.type, entry.value, ok))
           /\ ai' = ai + 1
           /\ Goto(AfterAdd(ok, ai + 1, dh_ips, home_ips))
    /\ UNCHANGED <<home_ip_addrs, home_ips, entries, listed, dh_ips, ri, list_result>>
    /\ UNCHANGED timer

Add == \E ok \in BOOLEAN : AddStep(ok)

\* main: sleep_s = update_timer(succeeded, sleep_s). When the sum of the
\* failure branch does not fit the word, a build with overflow checks panics
\* and a build without them wraps.
UpdateTimer ==
    /\ pc = "timer"
    /\ \E overflow_checks \in BOOLEAN :
        IF ~succeeded /\ Overflows(sleep_s, opts.min_sleep) /\ overflow_checks
        THEN /\ pc' = "overflow"
             /\ UNCHANGED <<sleep_s, last_s, fails>>
        ELSE /\ pc' = "sleep"
             /\ sleep_s' = update_timer(succeeded, sleep_s)
             /\ last_s' = sleep_s
             /\ fails' = IF ~succeeded /\ fails \in 0..(MaxFails - 1)
                         THEN fails + 1 ELSE -1
    /\ UNCHANGED <<store, succeeded, opts, cycle>>
    /\ UNCHANGED locals

\* heartbeat's locals of the finished cycle are gone
ResetLocals ==
    /\ home_ips' = <<>>
    /\ entries' = <<>>
    /\ listed' = Err
    /\ dh_ips' = <<>>
    /\ ri' = 0
    /\ ai' = 0
    /\ calls' = <<>>
    /\ list_result' = ""
    /\ succeeded' = FALSE

\* main: thread::sleep, then the next iteration of `loop`
Sleep ==
    /\ pc = "sleep"
    /\ pc' = "resolve"
    /\ home_ip_addrs' = Err
    /\ ResetLocals
    /\ cycle' = Min(cycle + 1, MaxCycles)
    /\ UNCHANGED <<store, sleep_s, opts, last_s, fails>>

Next == LookupErr \/ LookupOk \/ List \/ Remove \/ Add \/ UpdateTimer \/ Sleep

Spec == Init /\ [][Next]_vars

----------------------------------------------------------------------------
(* The loop in a steady environment: the resolver returns the same non-empty *)
(* addresses in every cycle and every list, remove and add request succeeds. *)

\* the resolver returns a non-empty answer, the one of the cycle before if any
LookupSteady ==
    \E ips \in SeqsUpTo(Addrs, MaxIps) :
        /\ ips # <<>>
        /\ home_ip_addrs.ok => ips = home_ip_addrs.val
        /\ LookupReturns(ips)

ListSucceeds == ListStep(TRUE)

RemoveSucceeds == RemoveStep(TRUE)

AddSucceeds == AddStep(TRUE)

\* Sleep, with the resolver's answer remembered for LookupSteady
SleepSteady ==
    /\ pc = "sleep"
    /\ pc' = "resolve"
    /\ ResetLocals
    /\ cycle' = Min(cycle + 1, MaxCycles)
    /\ UNCHANGED <<store, home_ip_addrs, sleep_s, opts, last_s, fails>>

NextConverge ==
    LookupSteady \/ ListSucceeds \/ RemoveSucceeds \/ AddSucceeds \/ UpdateTimer
        \/ SleepSteady

SpecConverge == Init /\ [][NextConverge]_vars

----------------------------------------------------------------------------
(* Vocabulary of the properties *)

\* the desired bag of the cycle: one locally synthesized record per resolved address
Desired == MapRecordNew(home_ip_addrs.val)

\* the remote bag of the cycle: what list() returned
Remote == listed.val

\* two records are the same address: same kind, same parsed value
SameAddress(a, b) == a.r_type = b.r_type /\ a.value = b.value

\* number of records of a vector with the (kind, value) of k
Copies(recs, k) == Cardinality({i \in DOMAIN recs : SameAddress(recs[i], k)})

\* the (kind, value) pairs present in either bag, each by a representative record
Keys == {Desired[i] : i \in DOMAIN Desired} \cup {Remote[i] : i \in DOMAIN Remote}

Monus(a, b) == IF a > b THEN a - b ELSE 0

CallsOf(op) == {i \in DOMAIN calls : calls[i].op = op}

\* heartbeat has returned and its result is in `succeeded`
Returned == pc \in {"timer", "sleep"}

\* list() succeeded in this cycle, so the diff has been computed
PlanComputed == listed.ok

\* the removal loop of this cycle is over
RemovalsOver == PlanComputed /\ pc \in {"add", "timer", "sleep"}

----------------------------------------------------------------------------
(* C1: in a cycle where address resolution fails or returns zero addresses,  *)
(* heartbeat issues no remove and no add request, whatever the store holds,  *)
(* and returns false (the cycle is handed to update_timer as failed).        *)
C1_EmptyResolutionMutatesNothing ==
    (pc # "resolve" /\ (~home_ip_addrs.ok \/ home_ip_addrs.val = <<>>))
        => /\ CallsOf("remove") = {}
           /\ CallsOf("add") = {}
           /\ Returned
           /\ succeeded = FALSE

\* zero addresses resolved while the store holds a managed record
C1_Witness ==
    /\ pc = "timer"
    /\ home_ip_addrs = Ok(<<>>)
    /\ ListFilterMap(store) # <<>>

----------------------------------------------------------------------------
(* C2: when the desired bag is non-empty and equals the remote bag under     *)
(* (kind, value), also with an address held more than once, the diff leaves  *)
(* toAdd and toRemove empty, no add or remove is issued and heartbeat        *)
(* returns true.                                                             *)
C2_EqualBagsGiveEmptyPlan ==
    (PlanComputed /\ \A k \in Keys : Copies(Desired, k) = Copies(Remote, k))
        => /\ home_ips = <<>>
           /\ dh_ips = <<>>
           /\ CallsOf("remove") = {}
           /\ CallsOf("add") = {}
           /\ Returned
           /\ succeeded = TRUE

----------------------------------------------------------------------------
(* C3: once the removal loop is over, the number of remove requests for each *)
(* (kind, value) is max(0, copies in remote - copies in desired).            *)
C3_RemovalsAreUnpairedRemotes ==
    RemovalsOver
        => \A k \in Keys :
             Cardinality({i \in CallsOf("remove") :
                            /\ calls[i].type = k.r_type
                            /\ ParseIp(calls[i].value) = k.value})
               = Monus(Copies(Remote, k), Copies(Desired, k))

----------------------------------------------------------------------------
(* C4: after the diff, the number of records of toAdd for each (kind, value) *)
(* is max(0, copies in desired - copies in remote).                          *)
C4_AdditionsAreUnpairedDesired ==
    PlanComputed
        => \A k \in Keys :
             Copies(home_ips, k) = Monus(Copies(Desired, k), Copies(Remote, k))

----------------------------------------------------------------------------
\* the values sent by the remove requests issued before request i, in order
RECURSIVE RemoveValues(_)
RemoveValues(cs) ==
    IF cs = <<>> THEN <<>>
    ELSE (IF Head(cs).op = "remove" THEN <<Head(cs).value>> ELSE <<>>)
         \o RemoveValues(Tail(cs))

\* the svalue of every record of a vector, in order
RECURSIVE Handles(_)
Handles(recs) ==
    IF recs = <<>> THEN <<>> ELSE <<Head(recs).svalue>> \o Handles(Tail(recs))

(* C5: within a cycle, when an add request is issued, a remove request has   *)
(* already been attempted, successfully or not, for every record of          *)
(* toRemove.                                                                 *)
C5_RemovalsBeforeAdditions ==
    \A i \in CallsOf("add") :
        RemoveValues(SubSeq(calls, 1, i - 1)) = Handles(dh_ips)

\* an add issued after two removals, one of which failed
C5_Witness ==
    /\ CallsOf("add") # {}
    /\ Len(dh_ips) >= 2
    /\ \E i \in CallsOf("remove") : ~calls[i].ok

----------------------------------------------------------------------------
(* C6: a failed add request is the last request of its cycle: no further add *)
(* is issued, and heartbeat returns false.                                   *)
C6_AddFailureAbortsCycle ==
    \A i \in CallsOf("add") :
        ~calls[i].ok => /\ i = Len(calls)
                        /\ Returned
                        /\ succeeded = FALSE

\* an add failed while a record of toAdd was still waiting
C6_Witness ==
    /\ \E i \in CallsOf("add") : ~calls[i].ok
    /\ ai < Len(home_ips)
    /\ Returned

----------------------------------------------------------------------------
(* C7 as stated: in a cycle with a failed remove, once heartbeat has         *)
(* returned, a remove was attempted for every record of toRemove and an add  *)
(* for every record of toAdd.                                                *)
C7_RemoveFailureAllAddsAttempted ==
    (Returned /\ \E i \in CallsOf("remove") : ~calls[i].ok)
        => /\ Cardinality(CallsOf("remove")) = Len(dh_ips)
           /\ Cardinality(CallsOf("add")) = Len(home_ips)

(* C7 as amended: in a cycle with a failed remove, once heartbeat has        *)
(* returned, a remove was attempted for every record of toRemove, and the    *)
(* adds ran as they do after successful removals: an add was attempted for   *)
(* every record of toAdd unless an add failed, and then for every record up  *)
(* to that failed add. A removal failure alone never makes heartbeat return. *)
C7_RemoveFailureNeverAborts ==
    (Returned /\ \E i \in CallsOf("remove") : ~calls[i].ok)
        => /\ RemoveValues(calls) = Handles(dh_ips)
           /\ Cardinality(CallsOf("add")) = ai
           /\ \/ ai = Len(home_ips)
              \/ ~calls[Len(calls)].ok /\ calls[Len(calls)].op = "add"
           /\ succeeded = (\A i \in CallsOf("add") : calls[i].ok)

\* the first of two removals failed, the second was still attempted, and an add followed
C7_Witness ==
    /\ Returned
    /\ Len(calls) >= 4
    /\ calls[2].op = "remove" /\ ~calls[2].ok
    /\ calls[3].op = "remove"
    /\ calls[4].op = "add"

----------------------------------------------------------------------------
(* C8: remove never panics on its assertion: every record handed to remove,  *)
(* and every record still waiting in the removal loop, has a non-empty       *)
(* svalue and is one of the records list() returned in this cycle; the value *)
(* every remove request sent is non-empty.                                   *)
C8_RemoveGetsListedHandle ==
    /\ pc # "panic"
    /\ \A i \in DOMAIN dh_ips :
        /\ dh_ips[i].svalue # ""
        /\ listed.ok
        /\ \E j \in DOMAIN listed.val : listed.val[j] = dh_ips[i]
    /\ \A i \in CallsOf("remove") : calls[i].value # ""

\* a remove request was issued while the store also held a record with an empty value
C8_Witness ==
    /\ CallsOf("remove") # {}
    /\ \E j \in DOMAIN entries : entries[j].value = "" /\ entries[j].record = ddns_host

----------------------------------------------------------------------------
(* C9: toRemove is exactly the listed records whose (kind, parsed value) no  *)
(* desired record has, whatever their text; and the k-th remove request      *)
(* sends the svalue of the k-th record of toRemove, which is the value text  *)
(* of an entry of the list response with that type.                          *)
C9_PairByValueRemoveByText ==
    PlanComputed
        => /\ dh_ips = SelectSeq(listed.val, LAMBDA r : Copies(Desired, r) = 0)
           /\ RemoveValues(calls) = SubSeq(Handles(dh_ips), 1, ri)
           /\ \A i \in CallsOf("remove") :
                \E j \in DOMAIN entries :
                    /\ entries[j].record = ddns_host
                    /\ entries[j].type = calls[i].type
                    /\ entries[j].value = calls[i].value

\* a remove request sent an unabbreviated IPv6 text, which differs from the
\* rendering of the address it parses to
C9_Witness ==
    /\ \E i \in CallsOf("remove") : DisplayIp(ParseIp(calls[i].value)) # calls[i].value
    /\ PlanComputed

----------------------------------------------------------------------------
(* C10: in a cycle where the list request fails, heartbeat issues no remove  *)
(* and no add request and returns false.                                     *)
C10_ListFailureMutatesNothing ==
    (\E i \in CallsOf("list") : ~calls[i].ok)
        => /\ CallsOf("remove") = {}
           /\ CallsOf("add") = {}
           /\ Returned
           /\ succeeded = FALSE

\* the list request failed with addresses resolved and managed records in the store
C10_Witness ==
    /\ \E i \in CallsOf("list") : ~calls[i].ok
    /\ home_ips # <<>>
    /\ ListFilterMap(store) # <<>>

----------------------------------------------------------------------------
\* an entry of the list response that is a managed address record: the managed
\* hostname, type A or AAAA, a value that is the text of an address
Managed(e) ==
    /\ e.record = "home.example.com"
    /\ e.type \in {"A", "AAAA"}
    /\ e.value \in {"1.2.3.4", "::1", "0:0:0:0:0:0:0:1"}

(* C11: when the API answers the list request with success, list() returns   *)
(* Ok whatever entries the response holds; the records it returns are, in    *)
(* order, exactly the entries with the managed hostname, type A/AAAA and a   *)
(* parsable value; no remove request targets any other entry; and heartbeat  *)
(* returns false in such a cycle only after a failed add.                    *)
C11_ListDropsForeignEntries ==
    list_result = "success"
        => /\ listed.ok
           /\ Len(listed.val) = Len(SelectSeq(entries, Managed))
           /\ \A i \in DOMAIN listed.val :
                /\ listed.val[i].svalue = SelectSeq(entries, Managed)[i].value
                /\ listed.val[i].r_type = SelectSeq(entries, Managed)[i].type
           /\ \A i \in CallsOf("remove") :
                Managed([record |-> ddns_host, type |-> calls[i].type,
                         value |-> calls[i].value])
           /\ (Returned /\ ~succeeded)
                => (calls[Len(calls)].op = "add" /\ ~calls[Len(calls)].ok)

\* a cycle that removed a record and succeeded while the response also held an
\* entry that list() drops
C11_Witness ==
    /\ list_result = "success"
    /\ \E j \in DOMAIN entries : ~Managed(entries[j])
    /\ CallsOf("remove") # {}
    /\ Returned
    /\ succeeded

----------------------------------------------------------------------------
(* The loop with every pair of delays the command line accepts, on a host    *)
(* whose record is up to date: a cycle fails when the resolver or the list   *)
(* request fails and succeeds otherwise.                                     *)

InitTimer ==
    /\ InitLocals
    /\ store = <<[record |-> ddns_host, type |-> "A", value |-> "1.2.3.4"]>>
    /\ opts \in [min_sleep : 0..WordMax, max_sleep : 0..WordMax]

\* the resolver returns the address the store holds
LookupUpToDate == LookupReturns(<<Ipv4_1_2_3_4>>)

NextTimer == LookupErr \/ LookupUpToDate \/ List \/ UpdateTimer \/ Sleep

SpecTimer == InitTimer /\ [][NextTimer]_vars

----------------------------------------------------------------------------
\* the managed records the remote authority holds now
RemoteNow == ListFilterMap(store)

(* C12: in the steady environment, once one cycle is complete the remote bag *)
(* equals the desired bag under (kind, value), and every later cycle is a    *)
(* no-op: its plan is empty and it issues no add and no remove.              *)
C12_ConvergedAfterOneCycle ==
    cycle >= 1
        => /\ pc = "resolve"
                => \A k \in {Desired[i] : i \in DOMAIN Desired}
                            \cup {RemoteNow[i] : i \in DOMAIN RemoteNow} :
                       Copies(RemoteNow, k) = Copies(Desired, k)
           /\ PlanComputed => (home_ips = <<>> /\ dh_ips = <<>>)
           /\ CallsOf("remove") = {}
           /\ CallsOf("add") = {}

----------------------------------------------------------------------------
(* C13: whatever min_sleep and max_sleep are and whatever the outcomes of    *)
(* the cycles, the delay the main loop sleeps never exceeds max_sleep.       *)
C13_DelayNeverExceedsMax == pc = "sleep" => sleep_s <= opts.max_sleep

----------------------------------------------------------------------------
(* C14: from sleep_s = 0, after n failed cycles in a row the delay is        *)
(* min(n * min_sleep, max_sleep).                                            *)
C14_DelayAfterNFailures ==
    (pc = "sleep" /\ fails >= 1)
        => sleep_s = Min(fails * opts.min_sleep, opts.max_sleep)

----------------------------------------------------------------------------
(* C15: after a successful cycle the delay is exactly min_sleep, whatever    *)
(* the delay before was.                                                     *)
C15_SuccessResetsToMin == (pc = "sleep" /\ succeeded) => sleep_s = opts.min_sleep

\* a success after the delay had reached max_sleep, above min_sleep
C15_Witness ==
    /\ pc = "sleep"
    /\ succeeded
    /\ last_s = opts.max_sleep
    /\ opts.min_sleep < opts.max_sleep
    /\ sleep_s = opts.min_sleep

----------------------------------------------------------------------------
(* C16: the delay after a failed cycle is never smaller than the delay       *)
(* before it.                                                                *)
C16_FailureNeverLowersDelay == (pc = "sleep" /\ ~succeeded) => sleep_s >= last_s

----------------------------------------------------------------------------
(* C17: no cycle outcome makes the process panic: main's loop never leaves   *)
(* the cycle of heartbeat, update_timer and sleep.                           *)
C17_LoopNeverHalts == pc \in {"resolve", "list", "remove", "add", "timer", "sleep"}

----------------------------------------------------------------------------
(* C20: whenever update_timer is called after a failed cycle, the sum        *)
(* last_s + min_sleep fits the unsigned word, so it neither wraps nor panics.*)
C20_SumNeverOverflows ==
    (pc = "timer" /\ ~succeeded) => sleep_s + opts.min_sleep <= WordMax

----------------------------------------------------------------------------
\* the kind of a record agrees with the address family of its value
KindAgrees(r) ==
    /\ r.r_type = "A" <=> r.value.family = "V4"
    /\ r.r_type = "AAAA" <=> r.value.family = "V6"

(* C18: every Record the program holds, built by Record::new from a resolved *)
(* address or by list() from a remote entry, has kind A exactly when its     *)
(* value is IPv4 and AAAA exactly when it is IPv6.                           *)
C18_KindAgreesWithFamily ==
    /\ \A i \in DOMAIN Desired : KindAgrees(Desired[i])
    /\ \A i \in DOMAIN home_ips : KindAgrees(home_ips[i])
    /\ \A i \in DOMAIN listed.val : KindAgrees(listed.val[i])
    /\ \A i \in DOMAIN dh_ips : KindAgrees(dh_ips[i])

----------------------------------------------------------------------------
(* C19 as stated: when heartbeat has returned true, every remove and every   *)
(* add request of the cycle succeeded.                                       *)
C19_SuccessMeansAllMutationsSucceeded ==
    (Returned /\ succeeded)
        => \A i \in CallsOf("remove") \cup CallsOf("add") : calls[i].ok

(* C19 as amended: when heartbeat has returned true, every add request of    *)
(* the cycle succeeded (a remove request may have failed); a cycle with a    *)
(* failed add returns false, and the delay after it is the one computed by  *)
(* update_timer's failure branch from last_s, not a reset.                   *)
C19_SuccessMeansAllAddsSucceeded ==
    /\ (Returned /\ succeeded) => \A i \in CallsOf("add") : calls[i].ok
    /\ (Returned /\ \E i \in CallsOf("add") : ~calls[i].ok)
          => /\ ~succeeded
             /\ pc = "sleep"
                  => sleep_s = Min(WrappingAdd(last_s, opts.min_sleep), opts.max_sleep)

\* heartbeat returned true after a failed remove and a successful add
C19_Witness ==
    /\ Returned
    /\ succeeded
    /\ \E i \in CallsOf("remove") : ~calls[i].ok
    /\ \E i \in CallsOf("add") : calls[i].ok

====
